---- MODULE Spec2Model ----
(***************************************************************************)
(* django_elliptics/storage.py: the file storage backend for Elliptics.    *)
(*                                                                         *)
(* The model covers TimeoutAwareEllipticsStorage (with the methods it      *)
(* inherits from EllipticsStorage), the EllipticsFile handles it opens,    *)
(* and the remote peer the requests session talks to.                      *)
(*                                                                         *)
(* A Python str is a sequence of tokens: every character that quoting or   *)
(* stripping looks at ("/", "%", " ", "?", "=", "&", "+", digits) is a     *)
(* token of its own, a run of letters is one token.                        *)
(***************************************************************************)
EXTENDS Integers, Sequences, FiniteSets, TLC

\* ------------------------------------------------------------------ bounds
\* largest retry count drawn for retries_get / retries_post
MaxRetries == 2
\* operations each caller may start
MaxOps == 3
\* longest buffer a handle may hold
MaxBuf == 2
\* calls each caller may make on the storage itself
MaxCalls == 2
\* calls the caller of a written handle may start
MaxWriteOps == 4
\* calls each of two callers sharing a name may start
MaxPairOps == 2

\* the callers; each owns the handle of the same name
Callers == {"c1", "c2"}

\* ------------------------------------------------------------ str helpers
RECURSIVE lstrip(_)
lstrip(s) == IF s # <<>> /\ Head(s) = "/" THEN lstrip(Tail(s)) ELSE s

RECURSIVE rstrip(_)
rstrip(s) ==
    IF s # <<>> /\ s[Len(s)] = "/" THEN rstrip(SubSeq(s, 1, Len(s) - 1)) ELSE s

\* part.strip('/')
strip(s) == rstrip(lstrip(s))

\* c in s
Has(s, c) == \E i \in DOMAIN s : s[i] = c

\* the characters urllib.quote leaves alone besides letters, digits, "_.-"
QuoteSafe == {"/"}

\* the reserved characters of the model's alphabet and their %XX escapes
PctCode(c) ==
    CASE c = " " -> <<"%", "2", "0">>
      [] c = "%" -> <<"%", "2", "5">>
      [] c = "?" -> <<"%", "3", "F">>
      [] c = "=" -> <<"%", "3", "D">>
      [] c = "&" -> <<"%", "2", "6">>
      [] c = "+" -> <<"%", "2", "B">>
      [] c = "/" -> <<"%", "2", "F">>
      [] OTHER -> <<c>>

Reserved == {" ", "%", "?", "=", "&", "+", "/"}

RECURSIVE quote_with(_, _)
quote_with(s, safe) ==
    IF s = <<>> THEN <<>>
    ELSE (IF Head(s) \in Reserved \ safe THEN PctCode(Head(s)) ELSE <<Head(s)>>)
         \o quote_with(Tail(s), safe)

\* urllib.quote(s): safe = '/'
quote(s) == quote_with(s, QuoteSafe)

RECURSIVE plus_for_space(_)
plus_for_space(s) ==
    IF s = <<>> THEN <<>>
    ELSE <<(IF Head(s) = " " THEN "+" ELSE Head(s))>> \o plus_for_space(Tail(s))

\* urllib.quote_plus(s): nothing reserved is safe, ' ' becomes '+'
quote_plus(s) ==
    IF Has(s, " ") THEN plus_for_space(quote_with(s, {" "})) ELSE quote_with(s, {})

\* sep.join(segs)
RECURSIVE join(_, _)
join(sep, segs) ==
    IF segs = <<>> THEN <<>>
    ELSE IF Len(segs) = 1 THEN segs[1]
    ELSE segs[1] \o sep \o join(sep, Tail(segs))

\* urllib.urlencode(args): args is a sequence of <<key, value>> pairs
urlencode(args) ==
    join(<<"&">>,
         [i \in DOMAIN args |-> quote_plus(args[i][1]) \o <<"=">> \o quote_plus(args[i][2])])

\* ------------------------------------------------------------- url builder
Truthy(part) == part # <<>>

\* EllipticsStorage._make_url(*parts, **args)
Base_make_url(parts, args) ==
    LET kept == SelectSeq(parts, Truthy)
        url  == join(<<"/">>, [i \in DOMAIN kept |-> strip(kept[i])])
    IN IF args # <<>> THEN url \o <<"?">> \o urlencode(args) ELSE url

\* TimeoutAwareEllipticsStorage._make_url(*parts, **args): quotes every part
\* but the first, then defers to the base class
_make_url(parts, args) ==
    Base_make_url([i \in DOMAIN parts |-> IF i = 1 THEN parts[i] ELSE quote(parts[i])],
                  args)

\* ---------------------------------------------------------------- settings
\* default_settings['private_url'] / ['public_url'], with distinct hosts
private_url == <<"http:", "/", "/", "private", "/">>
public_url == <<"http:", "/", "/", "public", "/">>

\* object names, written contents, saved bodies and mode strings the callers use
Names == {<<"/", "a">>, <<"b", " ">>}
Contents == {<<>>, <<"x">>, <<"y">>}
Bodies == {<<>>, <<"x">>}
\* the name two callers open at the same time
SharedName == <<"/", "a">>
Prefixes == {<<>>, <<"/", "p", "/">>, <<"/">>}
Modes == {<<"r">>, <<"w">>, <<"a">>, <<"r", "b">>, <<"r", "w">>, <<"w", "a">>,
          <<"r", "+">>, <<"w", "+">>, <<"b">>, <<>>}

VARIABLES
    settings,   \* prefix, retries_get, retries_post of the storage
    remote,     \* the remote peer: stored body per key
    file,       \* per caller: the EllipticsFile it holds
    pc,         \* per caller: "idle" or "req" (inside _timeout_request)
    frame,      \* per caller: the locals of the running _timeout_request
    result,     \* per caller: outcome of the last finished call
    ops,        \* per caller: calls started
    net,        \* per caller: transport calls made
    saveLog,    \* per caller: the _save calls its handle's close made, as they ended
    fetchOk,    \* per caller: fetches of its handle that succeeded
    lastSave,   \* per caller: the _save it finished last, while nothing followed
    written,    \* per caller: what the write calls on its handle were given
    budget      \* per caller: the calls it may start

vars == <<settings, remote, file, pc, frame, result, ops, net, saveLog, fetchOk,
          lastSave, written, budget>>

\* ------------------------------------------------------------- remote peer
RECURSIVE Find(_, _, _)
Find(s, c, i) ==
    IF i > Len(s) THEN 0 ELSE IF s[i] = c THEN i ELSE Find(s, c, i + 1)

PathOf(url) ==
    LET q == Find(url, "?", 1) IN IF q = 0 THEN url ELSE SubSeq(url, 1, q - 1)

QueryOf(url) ==
    LET q == Find(url, "?", 1) IN IF q = 0 THEN <<>> ELSE SubSeq(url, q + 1, Len(url))

HasPrefix(s, p) == Len(s) >= Len(p) /\ SubSeq(s, 1, Len(p)) = p

ServerRoot == strip(private_url) \o <<"/">>

AppendQuery == <<"ioflags", "=", "2">>

Reply(status, content, store) ==
    [status |-> status, content |-> content, store |-> store]

\* the peer's answer to one request: <root>/<command>/<key>[?ioflags=2]
Serve(method, url, body, store) ==
    LET path == PathOf(url)
        rest == SubSeq(path, Len(ServerRoot) + 1, Len(path))
        key  == IF Len(rest) >= 3 /\ rest[2] = "/"
                THEN SubSeq(rest, 3, Len(rest)) ELSE <<>>
        have == key \in DOMAIN store
    IN IF ~HasPrefix(path, ServerRoot) \/ rest = <<>> THEN Reply(404, <<>>, store)
       ELSE CASE rest[1] = "get" /\ method = "GET" ->
                   IF have THEN Reply(200, store[key], store)
                   ELSE Reply(404, <<>>, store)
              [] rest[1] = "get" /\ method = "HEAD" ->
                   Reply(IF have THEN 200 ELSE 404, <<>>, store)
              [] rest[1] = "upload" /\ method = "POST" ->
                   Reply(200, <<>>,
                         (key :> (IF have /\ QueryOf(url) = AppendQuery
                                  THEN store[key] \o body ELSE body)) @@ store)
              [] rest[1] = "delete" /\ method = "GET" ->
                   IF have
                   THEN Reply(200, <<>>, [k \in DOMAIN store \ {key} |-> store[k]])
                   ELSE Reply(404, <<>>, store)
              [] OTHER -> Reply(404, <<>>, store)

Outcome(kind, status, content, store) ==
    [kind |-> kind, status |-> status, content |-> content, store |-> store]

\* self.session.post/get/head(url, ...): the outcomes of one transport call.
\* The peer answers, or fails with 500, or the host does not resolve; with a
\* timeout the call may also time out, before or after the peer acted on it.
_request(method, url, body, timed, store) ==
    LET r == Serve(method, url, body, store) IN
    {Outcome("response", r.status, r.content, r.store),
     Outcome("response", 500, <<>>, store),
     Outcome("gaierror", 0, <<>>, store)}
    \cup (IF timed
          THEN {Outcome("Timeout", 0, <<>>, s) : s \in {store, r.store}}
          ELSE {})

\* ------------------------------------------------------------ cStringIO
NoStream == [alloc |-> FALSE, buf |-> <<>>, pos |-> 0]

\* StringIO(content) and StringIO()
StringIO(content) == [alloc |-> TRUE, buf |-> content, pos |-> 0]

Max(a, b) == IF a >= b THEN a ELSE b

\* stream.read() (num = <<>>) and stream.read(n) (num = <<n>>): the bytes
\* returned and the stream afterwards
stream_read(st, num) ==
    LET left == Max(Len(st.buf) - st.pos, 0)
        k    == IF num = <<>> \/ num[1] < 0 \/ num[1] > left THEN left ELSE num[1]
    IN [data |-> SubSeq(st.buf, st.pos + 1, st.pos + k),
        stream |-> [st EXCEPT !.pos = st.pos + k]]

\* stream.write(content): written at the cursor, the gap a seek past the end
\* left is filled with NUL bytes
stream_write(st, content) ==
    LET padded == st.buf \o [i \in 1..(st.pos - Len(st.buf)) |-> "NUL"]
        newpos == st.pos + Len(content)
        total  == Max(Len(padded), newpos)
    IN [st EXCEPT !.buf = [i \in 1..total |->
                              IF i > st.pos /\ i <= newpos
                              THEN content[i - st.pos] ELSE padded[i]],
                  !.pos = newpos]

\* stream.seek(offset, mode)
stream_seek(st, offset, mode) ==
    LET p == CASE mode = 2 -> offset + Len(st.buf)
               [] mode = 1 -> offset + st.pos
               [] OTHER -> offset
    IN [st EXCEPT !.pos = Max(p, 0)]

\* --------------------------------------------------------- EllipticsFile
NoFile == [open |-> FALSE, name |-> <<>>, mode |-> "", stream |-> NoStream]

\* __init__ without its test for '+'
ModeOf_no_plus(mode) ==
    IF Has(mode, "r") THEN "r"
    ELSE IF Has(mode, "w") THEN "w"
    ELSE IF Has(mode, "a") THEN "a"
    ELSE "ValueError"

\* EllipticsFile.__init__: the access mode a mode string selects, or the
\* ValueError it raises
ModeOf(mode) ==
    LET m == IF Has(mode, "r") THEN "r"
             ELSE IF Has(mode, "w") THEN "w"
             ELSE IF Has(mode, "a") THEN "a"
             ELSE "ValueError"
    IN IF m # "ValueError" /\ Has(mode, "+") THEN "ValueError" ELSE m

\* closed telling from the buffer's content instead of its allocation
closed_when_empty(f) == f.stream.buf = <<>>

\* EllipticsFile.closed
closed(f) == ~f.stream.alloc

\* ----------------------------------------------------------- the client
\* _make_private_url putting the prefix in front of the command
_make_private_url_prefix_first(command, name, args) ==
    _make_url(<<private_url, settings.prefix, command, name>>, args)

_make_private_url(command, name, args) ==
    _make_url(<<private_url, command, settings.prefix, name>>, args)

_make_public_url(command, name, args) ==
    _make_url(<<public_url, command, settings.prefix, name>>, args)

\* the request _fetch hands to _timeout_request
_fetch_request(name) ==
    [method |-> "GET", url |-> _make_private_url(<<"get">>, name, <<>>),
     body |-> <<>>]

\* _save posting the name where the content belongs
_save_request_posts_name(name, content, append) ==
    [method |-> "POST",
     url |-> _make_private_url(<<"upload">>, name,
                 IF append THEN << <<(<<"ioflags">>), (<<"2">>)>> >> ELSE <<>>),
     body |-> name]

\* the request _save hands to _timeout_request
_save_request(name, content, append) ==
    [method |-> "POST",
     url |-> _make_private_url(<<"upload">>, name,
                 IF append THEN << <<(<<"ioflags">>), (<<"2">>)>> >> ELSE <<>>),
     body |-> content]

\* retries of _timeout_request for a method
RetriesFor(method) ==
    IF method = "POST" THEN settings.retries_post ELSE settings.retries_get

\* outcome of a finished call
Result(op, exc, ret, flag, status, attempts, trace, msg) ==
    [op |-> op, exc |-> exc, ret |-> ret, flag |-> flag, status |-> status,
     attempts |-> attempts, trace |-> trace, msg |-> msg,
     executor |-> FALSE, retries |-> 0, afterSave |-> FALSE, saved |-> <<>>,
     savedTries |-> 0]

Local(op, exc, ret) == Result(op, exc, ret, FALSE, 0, 0, <<>>, 0)

NoResult == Local("", "", <<>>)

NoFrame ==
    [op |-> "", name |-> <<>>, num |-> <<>>, content |-> <<>>, method |-> "", url |-> <<>>,
     body |-> <<>>, append |-> FALSE, retries |-> 0, retry_count |-> 0,
     error_message |-> 0, trace |-> <<>>]

NoSave == [valid |-> FALSE, name |-> <<>>, data |-> <<>>, tries |-> 0]

\* nothing was written yet
NoWrites == [any |-> FALSE, bytes |-> <<>>]

\* ------------------------------------------------- _fetch, _save, read
\* _fetch handing out the body of every response
_fetch_ignores_status(exc, status, content) ==
    IF exc # "" THEN [exc |-> exc, ret |-> <<>>]
    ELSE [exc |-> "", ret |-> content]

\* what _fetch makes of _timeout_request's outcome: the exception it lets
\* through or raises, and the value it returns
_fetch(exc, status, content) ==
    IF exc # "" THEN [exc |-> exc, ret |-> <<>>]
    ELSE IF status # 200 THEN [exc |-> "ReadError", ret |-> <<>>]
    ELSE [exc |-> "", ret |-> content]

\* _save taking every response for a success
_save_ignores_status(exc, status, name) ==
    IF exc # "" THEN [exc |-> exc, ret |-> <<>>]
    ELSE [exc |-> "", ret |-> name]

\* the same for _save
_save(exc, status, name) ==
    IF exc # "" THEN [exc |-> exc, ret |-> <<>>]
    ELSE IF status # 200 THEN [exc |-> "SaveError", ret |-> <<>>]
    ELSE [exc |-> "", ret |-> name]

\* read without its mode check
read_allowed_any(mode) == TRUE

\* EllipticsFile.read: the mode check
read_allowed(mode) == mode = "r"

\* EllipticsFile.write: the mode check
write_allowed(mode) == mode \in {"w", "a"}

\* read with the test of the stream lost: every read fetches
read_fetches_always(f) == TRUE

\* EllipticsFile.read: whether the content has to be fetched
read_fetches(f) == ~f.stream.alloc

\* close without its test of the mode
close_saves_any_mode(f) == f.stream.alloc

\* EllipticsFile.close: whether it calls _save
close_saves(f) == f.stream.alloc /\ f.mode \in {"w", "a"}

\* the loop taking a resolution failure for one more timeout
OnAttempt_retries_gaierror(kind) ==
    CASE kind = "response" -> "break"
      [] OTHER -> "retry"

\* the loop going on after a response as after a timeout
OnAttempt_retries_response(kind) ==
    CASE kind = "gaierror" -> "raise"
      [] OTHER -> "retry"

\* _timeout_request: what the loop does with one attempt's outcome
OnAttempt(kind) ==
    CASE kind = "gaierror" -> "raise"
      [] kind = "Timeout" -> "retry"
      [] OTHER -> "break"

\* what the caller of _timeout_request does once it has returned or raised:
\* the caller's file, counters and result afterwards
Finish(c, fr, exc0, status, content) ==
    LET get  == fr.op \in {"fetch", "read"}
        out  == IF get THEN _fetch(exc0, status, content)
                ELSE _save(exc0, status, fr.name)
        ok   == out.exc = ""
        rd   == stream_read(StringIO(out.ret), fr.num)
        ret  == CASE ~ok -> <<>>
                  [] fr.op = "read" -> rd.data
                  [] fr.op = "close" -> <<>>
                  [] OTHER -> out.ret
        after == fr.op = "fetch" /\ lastSave[c].valid /\ lastSave[c].name = fr.name
    IN [file |-> IF ok /\ fr.op = "read"
                 THEN [file[c] EXCEPT !.stream = rd.stream] ELSE file[c],
        fetchOk |-> fetchOk[c] + (IF ok /\ fr.op = "read" THEN 1 ELSE 0),
        lastSave |-> IF ok /\ fr.op \in {"save", "close"} /\ ~fr.append
                     THEN [valid |-> TRUE, name |-> fr.name, data |-> fr.content,
                           tries |-> Len(fr.trace)]
                     ELSE NoSave,
        saveLog |-> IF fr.op = "close"
                    THEN Append(saveLog[c], [content |-> fr.content, append |-> fr.append,
                                             exc |-> out.exc])
                    ELSE saveLog[c],
        result |-> [Result(fr.op, out.exc, ret, FALSE,
                           IF exc0 = "" THEN status ELSE 0,
                           Len(fr.trace), fr.trace, fr.error_message)
                    EXCEPT !.executor = TRUE,
                           !.retries = fr.retries,
                           !.afterSave = after,
                           !.saved = IF after THEN lastSave[c].data ELSE <<>>,
                           !.savedTries = IF after THEN lastSave[c].tries ELSE 0]]

\* the call is over: the caller is idle again
Return(c, fr, exc0, status, content, others) ==
    LET fin == Finish(c, fr, exc0, status, content) IN
    /\ pc' = [pc EXCEPT ![c] = "idle"]
    /\ frame' = [frame EXCEPT ![c] = NoFrame]
    /\ file' = [file EXCEPT ![c] = fin.file]
    /\ fetchOk' = [fetchOk EXCEPT ![c] = fin.fetchOk]
    /\ saveLog' = [saveLog EXCEPT ![c] = fin.saveLog]
    /\ result' = [result EXCEPT ![c] = fin.result]
    /\ lastSave' = [d \in Callers |->
                      IF d = c THEN fin.lastSave
                      ELSE IF others THEN NoSave ELSE lastSave[d]]

\* _timeout_request is entered: an empty xrange(retries) falls through to the
\* loop's else branch, which reads retry_count before any assignment
Enter(c, op, name, num, content, req, append) ==
    LET fr == [op |-> op, name |-> name, num |-> num, content |-> content,
               method |-> req.method,
               url |-> req.url, body |-> req.body, append |-> append,
               retries |-> RetriesFor(req.method), retry_count |-> 0,
               error_message |-> 0, trace |-> <<>>]
    IN /\ ops' = [ops EXCEPT ![c] = @ + 1]
       /\ UNCHANGED <<settings, remote, net, budget>>
       /\ IF fr.retries <= 0
          THEN Return(c, fr, "UnboundLocalError", 0, <<>>, FALSE)
          ELSE /\ pc' = [pc EXCEPT ![c] = "req"]
               /\ frame' = [frame EXCEPT ![c] = fr]
               /\ lastSave' = [lastSave EXCEPT ![c] = IF op = "fetch" THEN @ ELSE NoSave]
               /\ UNCHANGED <<file, fetchOk, result, saveLog>>

\* a call that needs no request: only the caller's file and result change
Done(c, f, res) ==
    /\ ops' = [ops EXCEPT ![c] = @ + 1]
    /\ file' = [file EXCEPT ![c] = f]
    /\ result' = [result EXCEPT ![c] = res]
    /\ lastSave' = [lastSave EXCEPT ![c] = NoSave]
    /\ UNCHANGED <<settings, remote, pc, frame, net, saveLog, fetchOk, budget>>

\* the caller is between calls and may start one
Idle(c) == pc[c] = "idle" /\ ops[c] < budget[c]

IdleStore(c) == Idle(c)

\* ------------------------------------------------------------------ Init
\* the peer's store once it has taken an upload of body under name
Stored(name, body) ==
    Serve("POST", _save_request(name, body, FALSE).url, body, <<>>).store

\* ELLIPTICS_PREFIX, ELLIPTICS_GET_CONNECTION_RETRIES and
\* ELLIPTICS_POST_CONNECTION_RETRIES as the storage reads them
Settings(prefix, get, post) ==
    [prefix |-> prefix, retries_get |-> get, retries_post |-> post]

\* the state after construction of the storage: the settings are read, every
\* caller is idle and holds no file; the peer is empty or holds one object
Start(configs, names, max) ==
    /\ settings \in configs
    /\ remote \in {<<>>} \cup {Stored(n, <<"x", "y">>) : n \in names}
    /\ file = [c \in Callers |-> NoFile]
    /\ pc = [c \in Callers |-> "idle"]
    /\ frame = [c \in Callers |-> NoFrame]
    /\ result = [c \in Callers |-> NoResult]
    /\ ops = [c \in Callers |-> 0]
    /\ net = [c \in Callers |-> 0]
    /\ saveLog = [c \in Callers |-> <<>>]
    /\ fetchOk = [c \in Callers |-> 0]
    /\ lastSave = [c \in Callers |-> NoSave]
    /\ written = [c \in Callers |-> NoWrites]
    /\ budget = [c \in Callers |-> max]

\* --------------------------------------------------------------- actions
\* storage._open(name, mode) -> EllipticsFile(name, storage, mode)
Open(c, name, mode) ==
    /\ pc[c] = "idle"
    /\ ~file[c].open
    /\ file' = [file EXCEPT ![c] =
           IF ModeOf(mode) = "ValueError" THEN @
           ELSE [open |-> TRUE, name |-> name, mode |-> ModeOf(mode),
                 stream |-> NoStream]]
    /\ result' = [result EXCEPT ![c] =
           Local("open", IF ModeOf(mode) = "ValueError" THEN "ValueError" ELSE "", mode)]
    /\ lastSave' = [lastSave EXCEPT ![c] = NoSave]
    /\ UNCHANGED <<settings, remote, pc, frame, ops, net, saveLog, fetchOk, written,
                   budget>>

\* EllipticsFile.read(num_bytes)
Read(c, num) ==
    /\ Idle(c)
    /\ file[c].open
    /\ written' = written
    /\ IF ~read_allowed(file[c].mode)
       THEN Done(c, file[c], Local("read", "ModeError", <<>>))
       ELSE IF read_fetches(file[c])
       THEN Enter(c, "read", file[c].name, num, <<>>, _fetch_request(file[c].name),
                  FALSE)
       ELSE LET rd == stream_read(file[c].stream, num)
            IN Done(c, [file[c] EXCEPT !.stream = rd.stream],
                    Local("read", "", rd.data))

\* EllipticsFile.write(content)
Write(c, content) ==
    /\ Idle(c)
    /\ file[c].open
    /\ IF ~write_allowed(file[c].mode)
       THEN /\ Done(c, file[c], Local("write", "ModeError", <<>>))
            /\ written' = written
       ELSE LET st == IF file[c].stream.alloc THEN file[c].stream ELSE StringIO(<<>>)
                new == stream_write(st, content)
            IN /\ Len(new.buf) <= MaxBuf
               /\ Done(c, [file[c] EXCEPT !.stream = new], Local("write", "", <<>>))
               /\ written' = [written EXCEPT ![c] =
                      [any |-> TRUE, bytes |-> @.bytes \o content]]

\* EllipticsFile.close()
Close(c) ==
    /\ Idle(c)
    /\ file[c].open
    /\ written' = written
    /\ IF close_saves(file[c])
       THEN Enter(c, "close", file[c].name, <<>>, file[c].stream.buf,
                  _save_request(file[c].name, file[c].stream.buf, file[c].mode = "a"),
                  file[c].mode = "a")
       ELSE Done(c, file[c], Local("close", "", <<>>))

\* EllipticsFile.seek(offset, mode)
Seek(c, offset, mode) ==
    /\ Idle(c)
    /\ file[c].open
    /\ written' = written
    /\ IF ~file[c].stream.alloc
       THEN Done(c, file[c], Local("seek", "AttributeError", <<>>))
       ELSE LET new == stream_seek(file[c].stream, offset, mode)
            IN /\ new.pos <= MaxBuf
               /\ Done(c, [file[c] EXCEPT !.stream = new], Local("seek", "", <<>>))

\* EllipticsStorage.exists: the value it returns for a response
exists(status) == status = 200

\* a call that goes to the session directly: one transport call, no timeout
Direct(c, op, method, url) ==
    /\ IdleStore(c)
    /\ \E o \in _request(method, url, <<>>, FALSE, remote) :
         /\ remote' = o.store
         /\ result' = [result EXCEPT ![c] =
                IF o.kind = "response"
                THEN Result(op, "", <<>>, op = "exists" /\ exists(o.status),
                            o.status, 1, <<o.kind>>, 0)
                ELSE Result(op, o.kind, <<>>, FALSE, 0, 1, <<o.kind>>, 0)]
    /\ ops' = [ops EXCEPT ![c] = @ + 1]
    /\ net' = [net EXCEPT ![c] = @ + 1]
    /\ lastSave' = [d \in Callers |-> NoSave]
    /\ UNCHANGED <<settings, file, pc, frame, saveLog, fetchOk, written, budget>>

\* EllipticsStorage.exists(name)
Exists(c, name) ==
    Direct(c, "exists", "HEAD", _make_private_url(<<"get">>, name, <<>>))

\* EllipticsStorage.delete(name)
Delete(c, name) ==
    Direct(c, "delete", "GET", _make_private_url(<<"delete">>, name, <<>>))

\* EllipticsStorage.url(name)
Url(c, name) ==
    /\ IdleStore(c)
    /\ written' = written
    /\ Done(c, file[c], Local("url", "", _make_public_url(<<"get">>, name, <<>>)))

\* TimeoutAwareEllipticsStorage._save(name, content, append)
Save(c, name, content, append) ==
    /\ IdleStore(c)
    /\ written' = written
    /\ Enter(c, "save", name, <<>>, content, _save_request(name, content, append),
             append)

\* TimeoutAwareEllipticsStorage._fetch(name)
Fetch(c, name) ==
    /\ IdleStore(c)
    /\ written' = written
    /\ Enter(c, "fetch", name, <<>>, <<>>, _fetch_request(name), FALSE)

\* one pass of the loop of _timeout_request
Attempt(c) ==
    /\ pc[c] = "req"
    /\ \E o \in _request(frame[c].method, frame[c].url, frame[c].body, TRUE, remote) :
         LET act == OnAttempt(o.kind)
             fr  == [frame[c] EXCEPT
                        !.trace = Append(@, o.kind),
                        !.error_message =
                            IF act = "retry" THEN frame[c].retry_count + 1 ELSE @]
         IN /\ remote' = o.store
            /\ CASE act = "raise" -> Return(c, fr, "BaseError", 0, <<>>, TRUE)
                 [] act = "break" -> Return(c, fr, "", o.status, o.content, TRUE)
                 [] OTHER ->
                      IF fr.retry_count + 1 < fr.retries
                      THEN /\ frame' = [frame EXCEPT ![c] =
                                  [fr EXCEPT !.retry_count = @ + 1]]
                           /\ lastSave' = [d \in Callers |->
                                  IF d = c THEN lastSave[c] ELSE NoSave]
                           /\ UNCHANGED <<pc, file, fetchOk, result, saveLog>>
                      ELSE Return(c, fr, "TimeoutError", 0, <<>>, TRUE)
    /\ net' = [net EXCEPT ![c] = @ + 1]
    /\ UNCHANGED <<settings, ops, written, budget>>

\* the calls on a file handle
FileNext(c) ==
    \/ \E name \in Names, mode \in Modes : Open(c, name, mode)
    \/ \E num \in {<<>>, <<0>>, <<1>>} : Read(c, num)
    \/ \E content \in Contents : Write(c, content)
    \/ Close(c)
    \/ \E offset \in {-1, 0, 1}, mode \in {0, 1, 2} : Seek(c, offset, mode)
    \/ Attempt(c)

\* the calls on the storage itself
StoreNext(c) ==
    \/ \E name \in Names : Exists(c, name)
    \/ \E name \in Names : Delete(c, name)
    \/ \E name \in Names : Url(c, name)
    \/ \E name \in Names, content \in Bodies, append \in BOOLEAN :
           Save(c, name, content, append)
    \/ \E name \in Names : Fetch(c, name)
    \/ Attempt(c)

\* the calls on a handle opened for writing or appending
WriteNext(c) ==
    \/ \E name \in Names, mode \in {<<"w">>, <<"a">>} : Open(c, name, mode)
    \/ \E content \in Contents : Write(c, content)
    \/ \E offset \in {-1, 0, 1}, mode \in {0, 1, 2} : Seek(c, offset, mode)
    \/ Close(c)
    \/ Attempt(c)

\* the calls of one of several callers that write handles of their own
PairNext(c) ==
    \/ Open(c, SharedName, <<"w">>)
    \/ \E content \in Contents \ {<<>>} : Write(c, content)
    \/ Close(c)
    \/ Attempt(c)

\* one caller working on its file handle, under settings that let requests run
\* (a handle has one mode, so it only ever uses one of the two retry counts)
Init == Start({Settings(<<>>, k, k) : k \in 1..MaxRetries}, Names, MaxOps)

Next == FileNext("c1")

Spec == Init /\ [][Next]_vars

\* one caller working on the storage
InitStore ==
    Start({Settings(<<"p", "/">>, g, p) : g \in 0..MaxRetries, p \in 0..MaxRetries}, {},
          MaxCalls)

NextStore == StoreNext("c1")

SpecStore == InitStore /\ [][NextStore]_vars

\* one caller working on a storage set up with one of several prefixes
InitUrl == Start({Settings(p, 1, 1) : p \in Prefixes}, {}, MaxCalls)

SpecUrl == InitUrl /\ [][NextStore]_vars

\* one caller writing a handle, moving its cursor and closing it
InitWrite == Start({Settings(<<>>, k, k) : k \in 1..MaxRetries}, Names, MaxWriteOps)

NextWrite == WriteNext("c1")

SpecWrite == InitWrite /\ [][NextWrite]_vars

\* two callers, each writing and closing a handle of its own, in any order
InitPair == Start({Settings(<<>>, MaxRetries, MaxRetries)}, {}, MaxPairOps)

NextPair == \E c \in Callers : PairNext(c)

SpecPair == InitPair /\ [][NextPair]_vars

\* ------------------------------------------------------------ properties
Writing(f) == f.open /\ f.mode \in {"w", "a"}

Reading(f) == f.open /\ f.mode = "r"

\* the _save calls the closes of c's handle have made up to now
SaveCalls(c) ==
    Len(saveLog[c]) + (IF pc[c] = "req" /\ frame[c].op = "close" THEN 1 ELSE 0)

\* C1: a handle opened for writing or appending has _save called by close
\* at most once, however often it is written and closed: no _save call
\* follows one that returned (one that raised is the case of C2).
C1_SaveAtMostOnce ==
    \A c \in Callers :
        Writing(file[c]) =>
            \A i \in 1..Len(saveLog[c]) :
                saveLog[c][i].exc = "" => SaveCalls(c) = i

\* C2: once close has failed in _save (SaveError, TimeoutError or the fatal
\* BaseError went to the caller of close), the next call on the handle makes
\* no further _save call.
C2_NoSaveAfterFailedClose ==
    [][\A c \in Callers :
         (/\ Writing(file[c])
          /\ pc[c] = "idle"
          /\ result[c].op = "close"
          /\ result[c].exc \in {"SaveError", "TimeoutError", "BaseError"})
         => SaveCalls(c)' = SaveCalls(c)]_vars

\* C3: a handle opened for writing or appending and closed before any write
\* has had _save called exactly once, with empty content.
C3_CloseWithoutWriteSavesEmpty ==
    \A c \in Callers :
        (/\ Writing(file[c])
         /\ ~file[c].stream.alloc
         /\ pc[c] = "idle"
         /\ result[c].op = "close")
        => (Len(saveLog[c]) = 1 /\ saveLog[c][1].content = <<>>)

\* C4: a handle opened for reading fetches successfully at most once, and
\* once its stream holds the fetched content no call on it (a read with or
\* without a byte count, before or after close) starts a request or makes a
\* transport call.
C4_FetchAtMostOnce ==
    /\ [](\A c \in Callers : fetchOk[c] <= 1)
    /\ [][\A c \in Callers :
            (Reading(file[c]) /\ file[c].stream.alloc)
            => (pc'[c] = "idle" /\ net'[c] = net[c] /\ fetchOk'[c] = fetchOk[c])]_vars

\* C4 witness: after the one successful fetch, a read returned bytes from the
\* buffer without any transport call.
C4_Witness ==
    /\ fetchOk["c1"] = 1
    /\ result["c1"].op = "read"
    /\ ~result["c1"].executor
    /\ result["c1"].exc = ""
    /\ result["c1"].ret = <<"y">>

\* the first n attempts of a call all timed out
TimedOut(trace, n) == \A i \in 1..n : trace[i] = "Timeout"

\* C5: with retries = k, for every k >= 0: k - 1 timeouts and then a response
\* make _timeout_request return that response after exactly k transport
\* calls, and k timeouts make it raise TimeoutError with the last timeout's
\* message after exactly k transport calls.
C5_ExactlyKAttempts ==
    \A c \in Callers :
        LET r == result[c]
            k == r.retries
        IN r.executor =>
             /\ (Len(r.trace) = k /\ TimedOut(r.trace, k))
                => (r.exc = "TimeoutError" /\ r.attempts = k /\ r.msg = k)
             /\ (k >= 1 /\ Len(r.trace) = k /\ TimedOut(r.trace, k - 1)
                 /\ r.trace[k] = "response")
                => (r.exc \in {"", "ReadError", "SaveError"} /\ r.attempts = k)

\* C6: a resolution failure on any attempt ends _timeout_request at once with
\* BaseError (not TimeoutError): it is the call's last attempt, whatever is
\* left of the retries, and no running call has one behind it.
C6_ResolutionFailureIsFatal ==
    \A c \in Callers :
        /\ pc[c] = "req" => ~Has(frame[c].trace, "gaierror")
        /\ (result[c].executor /\ Has(result[c].trace, "gaierror"))
           => /\ result[c].exc = "BaseError"
              /\ \A i \in DOMAIN result[c].trace :
                    result[c].trace[i] = "gaierror" => i = result[c].attempts

\* C6 witness: the host did not resolve on the first attempt of a call that
\* had retries left; the call raised BaseError after that one attempt.
C6_Witness ==
    /\ result["c1"].executor
    /\ result["c1"].exc = "BaseError"
    /\ result["c1"].trace = <<"gaierror">>
    /\ result["c1"].retries = MaxRetries

\* C7: exists returns True exactly when the answer has status 200 and
\* returns False for every other outcome of the HEAD call; it never raises.
C7_ExistsNeverRaises ==
    \A c \in Callers :
        result[c].op = "exists"
        => (result[c].exc = "" /\ (result[c].flag <=> result[c].status = 200))

NoFlag(mode) == ~Has(mode, "r") /\ ~Has(mode, "w") /\ ~Has(mode, "a")

\* C8 as claimed: constructing a handle fails whenever the mode string holds
\* none of r, w, a and whenever it holds both r and w.
C8_RejectsReadWithWrite ==
    \A c \in Callers :
        (result[c].op = "open"
         /\ (NoFlag(result[c].ret) \/ (Has(result[c].ret, "r") /\ Has(result[c].ret, "w"))))
        => result[c].exc = "ValueError"

\* C8 as amended: constructing a handle fails with ValueError, before any
\* transport call, exactly when the mode string holds none of r, w, a or
\* holds '+'; every other mode string yields a handle, not yet allocated,
\* whose mode is r if the string holds r, else w if it holds w, else a.
C8_ModeValidation ==
    \A c \in Callers :
        (result[c].op = "open" /\ pc[c] = "idle") =>
            LET m == result[c].ret IN
            /\ net[c] = 0
            /\ result[c].exc \in {"", "ValueError"}
            /\ result[c].exc = "ValueError" <=> (NoFlag(m) \/ Has(m, "+"))
            /\ result[c].exc = "ValueError" => ~file[c].open
            /\ result[c].exc = "" =>
                  /\ file[c].open /\ closed(file[c])
                  /\ file[c].mode = (IF Has(m, "r") THEN "r"
                                     ELSE IF Has(m, "w") THEN "w" ELSE "a")

\* C8 witness: a mode holding both r and w was accepted as a read handle.
C8_Witness ==
    /\ result["c1"].op = "open"
    /\ result["c1"].ret = <<"r", "w">>
    /\ result["c1"].exc = ""
    /\ file["c1"].open /\ file["c1"].mode = "r"

\* C9: a _fetch of a name that follows at once on a _save of data under that
\* name, both answered 200, returns exactly data.
C9_RoundTrip ==
    \A c \in Callers :
        (result[c].op = "fetch" /\ result[c].exc = "" /\ result[c].afterSave)
        => result[c].ret = result[c].saved

\* C9 witness: the save got through only on its second POST, after a
\* timeout, and the fetch that followed returned the data.
C9_Witness ==
    /\ result["c1"].op = "fetch"
    /\ result["c1"].exc = ""
    /\ result["c1"].afterSave
    /\ result["c1"].savedTries = 2
    /\ result["c1"].ret = <<"x">>

\* the step is a call of op by c
Called(c, op) ==
    /\ ops'[c] = ops[c] + 1
    /\ \/ pc'[c] = "idle" /\ result'[c].op = op
       \/ pc'[c] = "req" /\ frame'[c].op = op

\* C10: write on a handle opened for reading, and read on a handle opened
\* for writing or appending, raise ModeError; the call makes no transport
\* call and leaves the handle (buffer, cursor, closed) as it was.
C10_ModeError ==
    [][\A c \in Callers :
         ((Called(c, "write") /\ Reading(file[c]))
          \/ (Called(c, "read") /\ Writing(file[c])))
         => /\ pc'[c] = "idle"
            /\ result'[c].exc = "ModeError"
            /\ file'[c] = file[c]
            /\ closed(file'[c]) = closed(file[c])
            /\ net' = net /\ remote' = remote]_vars

\* C10 witness: a read on a written handle raised ModeError, the buffer
\* still holding what was written.
C10_Witness ==
    /\ Writing(file["c1"])
    /\ result["c1"].op = "read"
    /\ result["c1"].exc = "ModeError"
    /\ file["c1"].stream.buf = <<"x", "y">>

\* C11: on a handle opened for writing or appending no transport call is made
\* before close, however many writes there are; the content close passes to
\* _save is the concatenation, in call order, of everything written to the
\* handle, and append is set exactly when the handle's mode is a.
C11_CloseSavesWhatWasWritten ==
    \A c \in Callers :
        Writing(file[c]) =>
            /\ SaveCalls(c) = 0 => net[c] = 0
            /\ (pc[c] = "req" /\ frame[c].op = "close")
               => /\ frame[c].content = written[c].bytes
                  /\ frame[c].body = written[c].bytes
                  /\ frame[c].append <=> file[c].mode = "a"
                  /\ QueryOf(frame[c].url) = AppendQuery <=> file[c].mode = "a"

\* the step ends c's call of op with a response from the transport
Answered(c, op) ==
    /\ pc[c] = "req" /\ pc'[c] = "idle"
    /\ frame[c].op = op
    /\ result'[c].trace[Len(result'[c].trace)] = "response"

\* C12: _fetch returns the body of a response with status 200 and raises
\* ReadError, carrying the response, for every other status; _save returns
\* the name for status 200 and raises SaveError, carrying the response, for
\* every other status; the upload URL has the query ioflags=2 exactly when
\* append is set, and no query otherwise.
C12_StatusMapping ==
    [][\A c \in Callers :
         LET fr  == frame[c]
             res == result'[c]
             srv == Serve(fr.method, fr.url, fr.body, remote)
         IN /\ Answered(c, "fetch") =>
                 IF res.status = 200
                 THEN res.exc = "" /\ srv.status = 200 /\ res.ret = srv.content
                 ELSE res.exc = "ReadError" /\ res.status \in {404, 500}
            /\ Answered(c, "save") =>
                 /\ IF res.status = 200
                    THEN res.exc = "" /\ res.ret = fr.name
                    ELSE res.exc = "SaveError" /\ res.status \in {404, 500}
                 /\ QueryOf(fr.url) = (IF fr.append THEN AppendQuery ELSE <<>>)]_vars

\* C12 witness: an appending _save was answered 500 on its second attempt and
\* raised SaveError with that status.
C12_Witness ==
    /\ result["c1"].op = "save"
    /\ result["c1"].exc = "SaveError"
    /\ result["c1"].status = 500
    /\ result["c1"].trace = <<"Timeout", "response">>

\* C13: every operation of the storage that goes to the network (exists,
\* delete, _fetch, _save) makes its transport calls through _timeout_request,
\* with the timeout and the retries of its class; none calls the session
\* directly without a timeout.
C13_AllThroughExecutor ==
    \A c \in Callers :
        (pc[c] = "idle" /\ result[c].op \in {"exists", "delete", "fetch", "save"})
        => /\ result[c].executor
           /\ result[c].retries =
                 (IF result[c].op = "save" THEN settings.retries_post
                  ELSE settings.retries_get)
           /\ result[c].attempts <= result[c].retries

\* c's handle is inside close or the step is a call of close
Closing(c) ==
    Called(c, "close") \/ (pc[c] = "req" /\ frame[c].op = "close")

\* C14: closed is True exactly while the handle's stream is not allocated:
\* from construction until the first read that succeeds (on a read handle)
\* or the first write (on a written or appended handle), and False in every
\* state after; close never changes it.
C14_ClosedProperty ==
    /\ [](\A c \in Callers :
            file[c].open =>
                /\ closed(file[c]) <=> ~file[c].stream.alloc
                /\ closed(file[c]) <=>
                       (IF file[c].mode = "r" THEN fetchOk[c] = 0
                        ELSE ~written[c].any))
    /\ [][\A c \in Callers :
            /\ (file[c].open /\ ~closed(file[c])) => ~closed(file'[c])
            /\ (file[c].open /\ Closing(c)) => closed(file'[c]) = closed(file[c])]_vars

\* C14 witness: a handle was written (an empty string) and then closed with
\* success; closed is False although close ran.
C14_Witness ==
    /\ Writing(file["c1"])
    /\ written["c1"].any /\ written["c1"].bytes = <<>>
    /\ pc["c1"] = "idle"
    /\ result["c1"].op = "close" /\ result["c1"].exc = ""
    /\ Len(saveLog["c1"]) = 1
    /\ ~closed(file["c1"])

\* a segment as it stands in a URL behind what precedes it: nothing for the
\* empty string, else '/' and the segment, quoted, without its outer '/'
Under(seg) == IF seg = <<>> THEN <<>> ELSE <<"/">> \o quote(strip(seg))

\* '?ioflags=2' for an appending upload, nothing for no arguments
QueryText(append) == IF append THEN <<"?">> \o AppendQuery ELSE <<>>

\* the command of the request a call makes
CommandOf(op) == IF op \in {"save", "close"} THEN <<"upload">> ELSE <<"get">>

\* the segments in the order base, prefix, command, name
PrefixFirst(base, prefix, command, name, append) ==
    strip(base) \o Under(prefix) \o Under(command) \o Under(name) \o QueryText(append)

\* the segments in the order base, command, prefix, name
CommandFirst(base, prefix, command, name, append) ==
    strip(base) \o Under(command) \o Under(prefix) \o Under(name) \o QueryText(append)

\* C15 as claimed: the URL of a command has its non-empty segments in the
\* order base, prefix, command, name, joined by '/', and the query text
\* behind it exactly when there are query arguments.
C15_PrefixBeforeCommand ==
    \A c \in Callers :
        pc[c] = "req" =>
            frame[c].url = PrefixFirst(private_url, settings.prefix,
                                       CommandOf(frame[c].op), frame[c].name,
                                       frame[c].append)

\* C15 as amended: the URL of a command is the base without its outer '/',
\* followed for each of command, prefix, name in this order, unless it is the
\* empty string, by '/' and the segment percent-quoted without its outer
\* '/' (a segment made of '/' only leaves an empty segment), followed by
\* '?ioflags=2' exactly when there are query arguments. It holds of the
\* private URL of every request and of the public URL url(name) returns.
C15_CommandBeforePrefix ==
    /\ [](\A c \in Callers :
            pc[c] = "req" =>
                frame[c].url = CommandFirst(private_url, settings.prefix,
                                            CommandOf(frame[c].op), frame[c].name,
                                            frame[c].append))
    /\ [][\A c \in Callers : \A name \in Names :
            Url(c, name) =>
                result'[c].ret = CommandFirst(public_url, settings.prefix, <<"get">>,
                                              name, FALSE)]_vars

\* C15 witness: an appending upload of 'b ' under the prefix '/p/' is on its
\* way to http://private/upload/p/b%20?ioflags=2.
C15_Witness ==
    /\ pc["c1"] = "req"
    /\ settings.prefix = <<"/", "p", "/">>
    /\ frame["c1"].name = <<"b", " ">>
    /\ frame["c1"].url = <<"http:", "/", "/", "private", "/", "upload", "/", "p", "/",
                           "b", "%", "2", "0", "?", "ioflags", "=", "2">>

\* what the peer answers a GET of name
Held(name) == Serve("GET", _fetch_request(name).url, <<>>, remote)

\* the last close of c's handle returned
ClosedOk(c) ==
    /\ pc[c] = "idle"
    /\ saveLog[c] # <<>>
    /\ saveLog[c][Len(saveLog[c])].exc = ""

\* c made no step
Stays(c) == pc[c] = "idle" /\ ops'[c] = ops[c] /\ result'[c] = result[c]

C17_FirstResponseReturned ==
    \A c \in Callers :
        /\ pc[c] = "req" => ~Has(frame[c].trace, "response")
        /\ (result[c].executor /\ Has(result[c].trace, "response")) =>
              LET r == result[c]
                  n == Len(r.trace)
              IN /\ r.trace[n] = "response"
                 /\ TimedOut(r.trace, n - 1)
                 /\ r.attempts = n
                 /\ r.status \in {200, 404, 500}
                 /\ r.exc = (IF r.status = 200 THEN ""
                             ELSE IF r.op \in {"fetch", "read"} THEN "ReadError"
                             ELSE "SaveError")

\* C17 witness: a _fetch with retries left was answered 404 on its first
\* attempt and raised ReadError after that single attempt.
C17_Witness ==
    /\ result["c1"].op = "fetch"
    /\ result["c1"].exc = "ReadError"
    /\ result["c1"].status = 404
    /\ result["c1"].trace = <<"response">>
    /\ result["c1"].retries = MaxRetries

\* C18: every call of _timeout_request ends after at most retries transport
\* calls, whatever the transport does on each attempt (a response, a
\* timeout, a resolution failure), and ends in exactly one of three ways: a
\* response returned, TimeoutError, or the fatal BaseError.
C18_BoundedAttempts ==
    \A c \in Callers :
        /\ pc[c] = "req" =>
              /\ Len(frame[c].trace) < frame[c].retries
              /\ frame[c].retry_count = Len(frame[c].trace)
        /\ result[c].executor =>
              LET r == result[c]
                  n == Len(r.trace)
              IN /\ r.attempts <= r.retries
                 /\ \/ r.exc = "TimeoutError" /\ n = r.retries /\ TimedOut(r.trace, n)
                    \/ r.exc = "BaseError" /\ n >= 1 /\ r.trace[n] = "gaierror"
                    \/ /\ r.exc \in {"", "ReadError", "SaveError"}
                       /\ n >= 1 /\ r.trace[n] = "response"

\* C19: close on a handle opened for reading does nothing, whatever state
\* the handle is in (never read, read, read to the end): it makes no
\* transport call and no _save call, raises nothing and leaves the buffer,
\* the cursor and closed as they were.
C19_ReadCloseIsNoOp ==
    /\ [](\A c \in Callers : Reading(file[c]) => SaveCalls(c) = 0)
    /\ [][\A c \in Callers :
            (Called(c, "close") /\ Reading(file[c]))
            => /\ pc'[c] = "idle"
               /\ result'[c].exc = ""
               /\ file'[c] = file[c]
               /\ closed(file'[c]) = closed(file[c])
               /\ net' = net /\ remote' = remote
               /\ fetchOk' = fetchOk]_vars

\* C19 witness: a handle that has read one byte of 'xy' was closed; the
\* buffer and the cursor are as the read left them.
C19_Witness ==
    /\ Reading(file["c1"])
    /\ pc["c1"] = "idle"
    /\ result["c1"].op = "close" /\ result["c1"].exc = ""
    /\ file["c1"].stream = [alloc |-> TRUE, buf |-> <<"x", "y">>, pos |-> 1]
    /\ net["c1"] = 1

FetchErrors == {"ReadError", "TimeoutError", "BaseError"}

\* the step ends the fetch of c's read without a response of status 200
FetchFailed(c) ==
    /\ pc[c] = "req" /\ pc'[c] = "idle"
    /\ frame[c].op = "read"
    /\ \/ result'[c].trace[Len(result'[c].trace)] # "response"
       \/ result'[c].status # 200

\* C20: when the fetch of a read on a handle opened for reading fails, the
\* error (ReadError, TimeoutError or the fatal BaseError) goes to the caller
\* and the handle is as before the call: no stream allocated, closed still
\* True; the next read starts a new fetch instead of returning data.
C20_FailedReadLeavesHandle ==
    /\ [](\A c \in Callers :
            (Reading(file[c]) /\ pc[c] = "idle" /\ result[c].op = "read"
             /\ result[c].exc \in FetchErrors)
            => (closed(file[c]) /\ ~file[c].stream.alloc /\ fetchOk[c] = 0))
    /\ [][\A c \in Callers :
            /\ FetchFailed(c) =>
                  /\ result'[c].exc \in FetchErrors
                  /\ result'[c].ret = <<>>
                  /\ file'[c] = file[c]
                  /\ closed(file'[c])
            /\ (Reading(file[c]) /\ pc[c] = "idle" /\ result[c].op = "read"
                /\ result[c].exc \in FetchErrors /\ Called(c, "read"))
               => /\ pc'[c] = "req"
                  /\ frame'[c].op = "read"
                  /\ frame'[c].method = "GET"
                  /\ frame'[c].url = _fetch_request(file[c].name).url]_vars

\* C20 witness: a read failed with TimeoutError after every attempt timed
\* out; the handle is still closed and the next read is fetching again.
C20_Witness ==
    /\ Reading(file["c1"])
    /\ result["c1"].op = "read"
    /\ result["c1"].exc = "TimeoutError"
    /\ result["c1"].attempts = MaxRetries
    /\ closed(file["c1"])
    /\ pc["c1"] = "req" /\ frame["c1"].op = "read"

====
